---- MODULE Spec2Model ----
(***************************************************************************)
(* PocketMCPClient (src/pocket_mcp_client.py): the JSON-RPC dispatcher     *)
(* _rpc over its two transports (requests.Session with a urllib3 Retry     *)
(* policy, or one persistent websocket), close(), and the inspection of    *)
(* the response envelope.  One client instance, one caller: a dispatch is  *)
(* a blocking call, so close() and the next dispatch happen only between   *)
(* dispatches (pc = "idle").  The remote and the network are the           *)
(* environment: every response, failure and unsolicited message is chosen  *)
(* nondeterministically.                                                   *)
(*                                                                         *)
(* HTTP redirects are not modelled: a 3xx status stands for a 3xx response *)
(* without a Location header (for instance 304), which requests hands back *)
(* as the final response.  Backoff sleeps take no part in the state.       *)
(*                                                                         *)
(* Spec is the client under dispatch; FnSpec applies the static helpers to *)
(* one input each; LiveSpec is the dispatch with a fair scheduler and no   *)
(* limit on what the remote delivers; HealthSpec is wait_until_healthy on  *)
(* a clock counted in tenths of a second.                                  *)
(***************************************************************************)
EXTENDS Integers, Sequences, FiniteSets, TLC

\* ---------------------------------------------------------------- bounds
MaxCalls == 2        \* dispatches made on the client
MaxDrain == 2        \* non-matching socket messages read within one dispatch
MaxRetriesCfg == 2   \* largest configured max_retries
MaxContent == 3      \* longest content list of a tool result
MaxTimeout == 2      \* largest timeout_seconds given to wait_until_healthy

\* ------------------------------------------------------------ JSON values
\* A member that is missing from a JSON object.
ABSENT == "<absent>"
\* Python None, which is also what JSON null decodes to.
None == "None"
EmptyStr == "''"
\* Values Python treats as false in `x or y`.
Falsy == {None, EmptyStr, "0", "False"}

\* dict.get(key): a missing member reads as None.
Get(obj, key) == IF obj[key] = ABSENT THEN None ELSE obj[key]

\* Python `a or b`.
PyOr(a, b) == IF a \in Falsy THEN b ELSE a

\* The id member of a received envelope, after data.get("id"): an integer,
\* the boolean true, or None (missing or null).
IntId(i) == [t |-> "int", v |-> i]
TrueId == [t |-> "bool", v |-> 1]
NoneId == [t |-> "none", v |-> 0]
RespIds == {NoneId, TrueId} \cup {IntId(i) : i \in 1..MaxCalls}

\* Python `==` between a received id and the request id (an int):
\* True == 1 holds, None == n does not.
PyEq(rid, n) == rid.t \in {"int", "bool"} /\ rid.v = n

\* The error member of a response envelope.
ErrAbsent == [kind |-> "absent", code |-> ABSENT, message |-> ABSENT, data |-> ABSENT]
ErrNull == [kind |-> "null", code |-> ABSENT, message |-> ABSENT, data |-> ABSENT]
ErrString == [kind |-> "string", code |-> ABSENT, message |-> ABSENT, data |-> ABSENT]
ErrObject(code, message, data) ==
  [kind |-> "object", code |-> code, message |-> message, data |-> data]
\* Error objects: complete, without data, without code, empty, and with a
\* null or an empty message.
ErrObjects ==
  {ErrObject("-32601", "boom", "d"), ErrObject("-32601", "boom", ABSENT),
   ErrObject(ABSENT, "boom", "d"), ErrObject(ABSENT, ABSENT, ABSENT),
   ErrObject("-32601", None, "d"), ErrObject("-32601", EmptyStr, ABSENT)}
ErrMembers == {ErrAbsent, ErrNull, ErrString} \cup ErrObjects

\* ---------------------------------------------------------- result values
\* The text member of a content part: missing, null, a number (5), or a
\* string given as its sequence of characters.
TextAbsent == [k |-> "absent", s |-> <<>>]
TextNull == [k |-> "null", s |-> <<>>]
TextNum == [k |-> "num", s |-> <<>>]
TextStr(s) == [k |-> "str", s |-> s]
Texts ==
  {TextAbsent, TextNull, TextNum}
  \cup {TextStr(s) : s \in {<<>>, <<"1">>, <<"[">>, <<"]">>}}

\* An element of a content list: a JSON object with its type and text
\* members, or a non-object (a number).
Part(type, text) == [k |-> "obj", type |-> type, text |-> text]
NonObjectPart == [k |-> "num", type |-> ABSENT, text |-> TextAbsent]
Parts ==
  {NonObjectPart, Part("image", TextStr(<<"1">>))}
  \cup {Part("text", t) : t \in Texts}

\* The content member of a result object: missing, a list of parts, or a
\* value that is not a list (a number, null, a string, an object).
Content(k, items) == [k |-> k, items |-> items]
NoContent == Content("absent", <<>>)
ContentList(items) == Content("list", items)

\* A JSON value in the result member of an envelope: missing, null, a
\* number, or an object with its isError, toolError and content members.
Val(t, isError, toolError, content) ==
  [t |-> t, isError |-> isError, toolError |-> toolError, content |-> content]
AbsentVal == Val("absent", ABSENT, ABSENT, NoContent)
NullVal == Val("null", ABSENT, ABSENT, NoContent)
NumVal == Val("num", ABSENT, ABSENT, NoContent)
Obj(isError, toolError, content) == Val("obj", isError, toolError, content)

\* Results the remote answers a dispatch with: none, null, 42, an object
\* without isError and content, {"isError": true, "toolError": "boom"} and
\* {"content": [{"type": "text", "text": "[1]"}]} sent as three text parts.
PlainObj == Obj(ABSENT, ABSENT, NoContent)
ToolErrorObj == Obj("True", "boom", NoContent)
TextObj ==
  Obj(ABSENT, ABSENT,
      ContentList(<<Part("text", TextStr(<<"[">>)), Part("text", TextStr(<<"1">>)),
                    Part("text", TextStr(<<"]">>))>>))
ResultMembers == {AbsentVal, NullVal, NumVal, PlainObj, ToolErrorObj, TextObj}

\* data.get("result"): a missing member reads as None.
GetResult(d) == IF d.result.t = "absent" THEN NullVal ELSE d.result

\* Response envelopes (JSON objects) the remote can produce.
Envelopes ==
  {e \in [id : RespIds, error : ErrMembers, result : ResultMembers] :
     \/ e.error = ErrAbsent
     \/ e.result = AbsentVal
     \/ e.result = NumVal /\ e.error \in {ErrNull, ErrObject("-32601", "boom", "d")}}
\* No envelope consumed (yet).
NoData == [id |-> [t |-> "nodata", v |-> 0], error |-> ErrAbsent, result |-> AbsentVal]

\* ---------------------------------------------------------------- strings
\* A string is the sequence of its characters; an Optional[str] is None or
\* a string.
NoneStr == [none |-> TRUE, s |-> <<>>]
Str(s) == [none |-> FALSE, s |-> s]

Whitespace == {" ", "\n", "\t"}

RECURSIVE LStrip(_, _)
\* str.lstrip(chars)
LStrip(s, chars) ==
  IF s # <<>> /\ Head(s) \in chars THEN LStrip(Tail(s), chars) ELSE s

RECURSIVE RStrip(_, _)
\* str.rstrip(chars)
RStrip(s, chars) ==
  IF s # <<>> /\ s[Len(s)] \in chars
  THEN RStrip(SubSeq(s, 1, Len(s) - 1), chars)
  ELSE s

\* str.strip()
Strip(s) == RStrip(LStrip(s, Whitespace), Whitespace)

\* str.startswith
StartsWith(s, prefix) ==
  /\ Len(s) >= Len(prefix)
  /\ SubSeq(s, 1, Len(prefix)) = prefix

RECURSIVE Join(_)
\* "\n".join(parts)
Join(parts) ==
  IF parts = <<>> THEN <<>>
  ELSE IF Len(parts) = 1 THEN parts[1]
  ELSE parts[1] \o <<"\n">> \o Join(Tail(parts))

\* json.loads over the characters 1 [ ] p and whitespace: a document is a
\* number (digits), or a list holding nothing or one document, with
\* whitespace allowed around every token.  The value is given by its
\* text without whitespace.
JsonFail == [ok |-> FALSE, v |-> <<>>]
RECURSIVE JsonLoads(_)
JsonLoads(text) ==
  LET t == Strip(text) IN
  IF t = <<>> THEN JsonFail
  ELSE IF \A i \in 1..Len(t) : t[i] = "1" THEN [ok |-> TRUE, v |-> t]
  ELSE IF Len(t) >= 2 /\ t[1] = "[" /\ t[Len(t)] = "]"
       THEN LET inner == Strip(SubSeq(t, 2, Len(t) - 1)) IN
            IF inner = <<>> THEN [ok |-> TRUE, v |-> <<"[", "]">>]
            ELSE LET r == JsonLoads(inner) IN
                 IF r.ok THEN [ok |-> TRUE, v |-> <<"[">> \o r.v \o <<"]">>]
                 ELSE JsonFail
       ELSE JsonFail

\* ------------------------------------------------------ base address
Http == <<"h", "t", "t", "p", ":", "/", "/">>
Https == <<"h", "t", "t", "p", "s", ":", "/", "/">>
Ws == <<"w", "s", ":", "/", "/">>
Wss == <<"w", "s", "s", ":", "/", "/">>

ValidationFailure == [err |-> TRUE, url |-> <<>>]

\* Variant of _normalize_base_url that strips one trailing slash only.
_normalize_base_url_one_slash(base_url) ==
  LET normalized == Strip(IF base_url.none THEN <<>> ELSE base_url.s) IN
  IF normalized = <<>> THEN ValidationFailure
  ELSE LET n == IF \E scheme \in {Http, Https, Ws, Wss} : StartsWith(normalized, scheme)
                THEN normalized
                ELSE Http \o normalized
       IN [err |-> FALSE,
           url |-> IF n[Len(n)] = "/" THEN SubSeq(n, 1, Len(n) - 1) ELSE n]

\* _normalize_base_url, lines 138-145.
_normalize_base_url(base_url) ==
  LET normalized == Strip(IF base_url.none THEN <<>> ELSE base_url.s) IN
  IF normalized = <<>> THEN ValidationFailure
  ELSE [err |-> FALSE,
        url |-> RStrip(IF \E scheme \in {Http, Https, Ws, Wss} : StartsWith(normalized, scheme)
                       THEN normalized
                       ELSE Http \o normalized,
                       {"/"})]

\* _request_json, line 171, for the RPC path: f"{self.base_url}{path}".
RpcEndpoint(base) == base \o <<"/", "m", "c", "p">>

\* ------------------------------------------------------------- outcomes
NoOutcome == [kind |-> "none", value |-> NullVal, code |-> None, message |-> None, data |-> None]
Returned(v) == [kind |-> "result", value |-> v, code |-> None, message |-> None, data |-> None]
PocketMCPConnectionError == [kind |-> "connection_error", value |-> NullVal, code |-> None, message |-> None, data |-> None]
PocketMCPProtocolError == [kind |-> "protocol_error", value |-> NullVal, code |-> None, message |-> None, data |-> None]

\* Variant of PocketMCPRpcError that loses the data member.
PocketMCPRpcErrorNoData(error) ==
  [kind |-> "rpc_error", value |-> NullVal,
   code |-> Get(error, "code"),
   message |-> PyOr(Get(error, "message"), "Unknown MCP error"),
   data |-> None]

PocketMCPRpcError(error) ==
  [kind |-> "rpc_error", value |-> NullVal,
   code |-> Get(error, "code"),
   message |-> PyOr(Get(error, "message"), "Unknown MCP error"),
   data |-> Get(error, "data")]

\* Variant of Inspect that looks at the result member first.
InspectResultFirst(d) ==
  IF d.result.t # "absent"
  THEN Returned(d.result)
  ELSE IF d.error.kind = "absent" THEN Returned(NullVal)
  ELSE IF d.error.kind # "object" THEN PocketMCPProtocolError
  ELSE PocketMCPRpcError(d.error)

\* _rpc, lines 234-240: inspection of the consumed envelope.
Inspect(d) ==
  IF d.error.kind # "absent"
  THEN IF d.error.kind # "object"
       THEN PocketMCPProtocolError
       ELSE PocketMCPRpcError(d.error)
  ELSE Returned(GetResult(d))

\* ---------------------------------------------------------- result decoder
\* What a public method hands back to its caller: a value (the result
\* object itself, a value parsed from text, or a text) or an exception.
Ret(kind, how, v, s, message) ==
  [kind |-> kind, how |-> how, v |-> v, s |-> s, message |-> message]
NoReturn == Ret("none", "-", NullVal, <<>>, "")
Original(v) == Ret("value", "original", v, <<>>, "")
Parsed(s) == Ret("value", "parsed", NullVal, s, "")
Text(s) == Ret("value", "text", NullVal, s, "")
PocketMCPToolError(message) == Ret("tool_error", "-", NullVal, <<>>, message)
PocketMCPValidationError == Ret("validation_error", "-", NullVal, <<>>, "")
\* An exception that is not a PocketMCPError.
TypeError == Ret("TypeError", "-", NullVal, <<>>, "")
\* An exception of _rpc passing through the caller.
Propagated(exc) == Ret(exc.kind, "-", NullVal, <<>>, exc.message)

\* Truth value of the text of a part: "" and None are false, 5 is true.
TextTruthy(t) == (t.k = "str" /\ t.s # <<>>) \/ t.k = "num"

\* item.get("text", "") for the parts that are objects of type "text"
\* (lines 249-253); iterating a string or an object yields no such part.
text_parts(content) ==
  IF content.k = "list"
  THEN LET texts == SelectSeq(content.items, LAMBDA item : item.k = "obj" /\ item.type = "text")
       IN [i \in 1..Len(texts) |-> texts[i].text]
  ELSE <<>>

\* Variant of _decode_tool_result that looks at content before isError.
_decode_tool_result_content_first(result) ==
  IF result.t = "obj" /\ result.content.k # "absent"
  THEN IF result.content.k \in {"num", "null"} THEN TypeError
       ELSE LET kept == SelectSeq(text_parts(result.content), TextTruthy) IN
            IF \E i \in 1..Len(kept) : kept[i].k # "str" THEN TypeError
            ELSE LET text == Join([i \in 1..Len(kept) |-> kept[i].s]) IN
                 IF text = <<>> THEN Original(result)
                 ELSE IF JsonLoads(text).ok THEN Parsed(JsonLoads(text).v)
                 ELSE Text(text)
  ELSE IF result.t = "obj" /\ Get(result, "isError") \notin Falsy
  THEN PocketMCPToolError(PyOr(Get(result, "toolError"), "Unknown tool error"))
  ELSE Original(result)

\* _decode_tool_result, lines 242-262.  Iterating a content that is a
\* number or null, or joining a text part that is not a string, raises
\* TypeError.
_decode_tool_result(result) ==
  IF result.t = "obj" /\ Get(result, "isError") \notin Falsy
  THEN PocketMCPToolError(PyOr(Get(result, "toolError"), "Unknown tool error"))
  ELSE IF result.t = "obj" /\ result.content.k # "absent"
  THEN IF result.content.k \in {"num", "null"} THEN TypeError
       ELSE LET kept == SelectSeq(text_parts(result.content), TextTruthy) IN
            IF \E i \in 1..Len(kept) : kept[i].k # "str" THEN TypeError
            ELSE LET text == Join([i \in 1..Len(kept) |-> kept[i].s]) IN
                 IF text = <<>> THEN Original(result)
                 ELSE IF JsonLoads(text).ok THEN Parsed(JsonLoads(text).v)
                 ELSE Text(text)
  ELSE Original(result)

\* Variant of _require_non_empty that tests the value without strip().
_require_non_empty_unstripped(value) == value.none \/ value.s = <<>>

\* _require_non_empty, lines 264-267: TRUE when it raises.
_require_non_empty(value) == value.none \/ Strip(value.s) = <<>>

\* ------------------------------------------------------------ the client
VARIABLES
  raw_url,       \* the base_url argument of the constructor
  base_url,      \* self.base_url, a sequence of characters (normalized)
  max_retries,   \* Retry(total=...): max(0, int(max_retries))
  ws_connect,    \* FALSE when the websockets import failed (ws_connect is None)
  _id_counter,   \* self._id_counter
  _ws,           \* self._ws: NoWs (None) or the id of a connection
  pc,            \* where the caller is: "idle", or a step of the running _rpc
  payload,       \* the request envelope of the running / last dispatch
  retries,       \* urllib3's remaining Retry.total within the running request
  sent,          \* transmissions of the running / last dispatch, in order
  built,         \* ids of the request envelopes built by this client, in order
  inbox,         \* ids of the envelopes the socket read loop decoded, in arrival order
  answers,       \* status of each HTTP attempt of this dispatch, in order (0: no response)
  fault,         \* the socket failure that ended this dispatch ("none": none)
  prev_fault,    \* the same for the dispatch before the running one
  tried_open,    \* this dispatch called ws_connect
  data,          \* the response envelope consumed by the dispatch
  status,        \* HTTP status of the final response of the dispatch (0: none)
  outcome,       \* what the running / last dispatch returned or raised
  conn_seq,      \* number of socket connections opened so far
  open_conns,    \* socket connections the client has opened and not closed
  body_kind,     \* what the body of the final HTTP response was ("none": none)
  op,            \* the method the caller invoked last: its name argument, and the
                 \* method and params it gives (or would give) to _rpc
  returned,      \* what that method handed back to the caller
  released,      \* the socket connections that method closed, when it is close()
  fn,            \* the static helper applied on its own ("none": none)
  fn_arg,        \* its argument
  fn_ret,        \* its result
  now,           \* time.monotonic(), in tenths of a second
  wpc,           \* where wait_until_healthy is: "none" (not called), "check",
                 \* "probe", "sleep" or "done"
  wait_args,     \* its timeout_seconds and poll_interval_seconds, in tenths
  deadline,      \* its deadline
  poll_interval, \* its poll_interval
  last_error,    \* the class of its last_error ("none": None)
  probes,        \* number of health() calls it has made
  failed,        \* number of those that raised
  pauses,        \* number of time.sleep calls it has made
  probed,        \* what its last health() call returned or raised
  waited         \* what it returned or raised

vars == <<raw_url, base_url, max_retries, ws_connect, _id_counter, _ws, pc, payload,
          retries, sent, built, inbox, answers, fault, prev_fault, tried_open,
          data, status, outcome, conn_seq, open_conns, body_kind, op, returned,
          released, fn, fn_arg, fn_ret, now, wpc, wait_args, deadline,
          poll_interval, last_error, probes, failed, pauses, probed, waited>>

\* What the constructor fixes, and the state of the helpers applied alone.
config == <<raw_url, base_url, max_retries, ws_connect>>
fn_vars == <<fn, fn_arg, fn_ret>>
\* The state of wait_until_healthy.
wait_vars == <<now, wpc, wait_args, deadline, poll_interval, last_error, probes,
               failed, pauses, probed, waited>>

NoWs == 0

HttpUrl == Http \o <<"h">>
HttpsUrl == Https \o <<"h">>
WsUrl == Ws \o <<"h">>
WssUrl == Wss \o <<"h", "/", "w", "s">>
\* __init__, lines 111 and 114: "http://127.0.0.1:8080", with d for the host.
DefaultUrl == Http \o <<"d">>
\* Base addresses given to the constructor of the client under dispatch:
\* "http://h/", "wsh" (no scheme, a host that begins with ws) and "ws://h".
RawUrls == {Str(HttpUrl \o <<"/">>), Str(<<"w", "s", "h">>), Str(WsUrl)}

\* __init__, line 114: self._normalize_base_url(base_url or "http://127.0.0.1:8080").
ConstructBaseUrl(raw) ==
  _normalize_base_url(IF raw.none \/ raw.s = <<>> THEN Str(DefaultUrl) ELSE raw)

\* Base addresses as the constructor leaves them.
BaseUrls == {ConstructBaseUrl(raw).url : raw \in RawUrls}

\* Variant of UsesSocket that tests the address as given, before normalization.
UsesSocketRaw == StartsWith(raw_url.s, <<"w", "s">>)

\* _rpc, line 207: self.base_url.startswith("ws")
UsesSocket == StartsWith(base_url, <<"w", "s">>)

\* The params argument of _rpc: None (the default), the empty object {} and
\* a non-empty object.
ParamsArgs == {None, "{}", "args"}

\* The callers that hand on what _rpc gives them: _rpc("tools/list"), as
\* list_tools() calls it, and the same with an empty object for params
\* (call_tool, below, passes a non-empty object).
Calls == {[method |-> "tools/list", params |-> None],
          [method |-> "tools/list", params |-> "{}"]}

\* The name argument of call_tool: None, "", "\n " and "t".
ToolNames == {NoneStr, Str(<<>>), Str(<<"\n", " ">>), Str(<<"t">>)}
\* The arguments argument of call_tool: None (an object goes the same way)
\* and a non-empty list.
Arguments == {None, "list"}

\* No envelope built yet.
NoPayload == [jsonrpc |-> "", id |-> 0, method |-> "", params |-> ABSENT]

\* Variant of Envelope that tests params for truth: if params: ...
EnvelopeIfTruthy(id, method, params) ==
  [jsonrpc |-> "2.0", id |-> id, method |-> method,
   params |-> IF params \in {None, "{}"} THEN ABSENT ELSE params]

\* _rpc, lines 199-205: the envelope, with a params member unless params is
\* None.
Envelope(id, method, params) ==
  [jsonrpc |-> "2.0", id |-> id, method |-> method,
   params |-> IF params = None THEN ABSENT ELSE params]

\* HTTP statuses the remote may answer with.
Statuses == {200, 304, 404, 413, 503}
Bodies ==
  {[kind |-> "nonjson", env |-> NoData], [kind |-> "nonobject", env |-> NoData]}
  \cup [kind : {"object"}, env : Envelopes]

\* An HTTP attempt that ended in a connection or read failure, not a response.
NoAnswer == 0

\* Retry(status_forcelist=...), line 131.
status_forcelist == {408, 429, 500, 502, 503, 504}
\* urllib3 Retry.RETRY_AFTER_STATUS_CODES; respect_retry_after_header is left
\* at its default (True) by the constructor call at lines 124-133.
RETRY_AFTER_STATUS_CODES == {413, 429, 503}

\* Variant of is_retry that retries every response but a 200.
is_retry_unless_200(st, has_retry_after, total) == st # 200

\* urllib3 Retry.is_retry for a POST (POST is in allowed_methods, line 130).
is_retry(st, has_retry_after, total) ==
  \/ st \in status_forcelist
  \/ (total # 0 /\ has_retry_after /\ st \in RETRY_AFTER_STATUS_CODES)

\* urllib3 Retry.increment followed by is_exhausted.  total, connect, read and
\* status all start at max_retries (lines 125-128) and total is decremented on
\* every retry of any kind, so total is always the least of them and the
\* policy is exhausted exactly when total drops below zero.
is_exhausted(total) == total - 1 < 0

\* requests Response.raise_for_status: raises for 4xx and 5xx only.
raise_for_status(st) == st >= 400 /\ st < 600

\* _request_json, lines 181-196, applied to the final response.
\* Variant of RequestJsonOutcome that reports an undecodable body as a
\* transport failure.
RequestJsonOutcomeBodyAsTransport(st, body) ==
  IF raise_for_status(st) THEN PocketMCPConnectionError
  ELSE IF body.kind = "nonjson" THEN PocketMCPConnectionError
  ELSE IF body.kind = "nonobject" THEN PocketMCPProtocolError
  ELSE Inspect(body.env)

\* _request_json, lines 181-196, then _rpc, lines 234-240.
RequestJsonOutcome(st, body) ==
  IF raise_for_status(st) THEN PocketMCPConnectionError
  ELSE IF body.kind = "nonjson" THEN PocketMCPProtocolError
  ELSE IF body.kind = "nonobject" THEN PocketMCPProtocolError
  ELSE Inspect(body.env)

RequestJsonData(st, body) ==
  IF ~raise_for_status(st) /\ body.kind = "object" THEN body.env ELSE NoData

\* Variant of _next_id that stops advancing after the first id.
_next_id_stuck == IF _id_counter = 0 THEN 1 ELSE _id_counter

\* __init__, line 101: max_retries: int = 2
DefaultMaxRetries == 2

\* _next_id, lines 159-161: the new value of the counter, which is the id.
_next_id == _id_counter + 1

\* No method invoked yet.
NoOp == [fn |-> "none", name |-> NoneStr, method |-> "", params |-> None]

\* __init__, lines 114-136.  max_retries is read by the HTTP adapter only and
\* ws_connect by the socket branch only, so each varies where it is used.
\* wait_until_healthy has not been called.
NoWaitArgs == [timeout_seconds |-> 0, poll_interval_seconds |-> 0]
NoWait ==
  /\ now = 0
  /\ wpc = "none"
  /\ wait_args = NoWaitArgs
  /\ deadline = 0
  /\ poll_interval = 0
  /\ last_error = "none"
  /\ probes = 0
  /\ failed = 0
  /\ pauses = 0
  /\ probed = NoOutcome
  /\ waited = NoOutcome

Init ==
  /\ raw_url \in RawUrls
  /\ base_url = ConstructBaseUrl(raw_url).url
  /\ base_url \in BaseUrls
  /\ max_retries \in 0..MaxRetriesCfg
  /\ ws_connect \in BOOLEAN
  /\ IF StartsWith(base_url, <<"w", "s">>)
     THEN max_retries = DefaultMaxRetries
     ELSE ws_connect
  /\ raw_url # Str(HttpUrl \o <<"/">>) => max_retries = DefaultMaxRetries
  /\ _id_counter = 0
  /\ _ws = NoWs
  /\ pc = "idle"
  /\ payload = NoPayload
  /\ retries = 0
  /\ sent = <<>>
  /\ built = <<>>
  /\ inbox = <<>>
  /\ answers = <<>>
  /\ fault = "none"
  /\ prev_fault = "none"
  /\ tried_open = FALSE
  /\ data = NoData
  /\ status = 0
  /\ outcome = NoOutcome
  /\ conn_seq = 0
  /\ open_conns = {}
  /\ body_kind = "none"
  /\ op = NoOp
  /\ returned = NoReturn
  /\ released = <<>>
  /\ fn = "none"
  /\ fn_arg = NoneStr
  /\ fn_ret = NoReturn
  /\ NoWait

\* Variant of Transmission in which every attempt takes a new id.
TransmissionNewId(via) ==
  [via |-> via, conn |-> _ws, env |-> [payload EXCEPT !.id = payload.id + Len(sent)]]

\* The envelope handed to the transport: json_body=payload (line 232) or
\* json.dumps(payload) (line 221).
Transmission(via) == [via |-> via, conn |-> _ws, env |-> payload]

\* _rpc, lines 198-208 and 231: build the envelope and select the transport.
RpcStart(call) ==
  /\ pc = "idle"
  /\ _id_counter < MaxCalls
  /\ payload' = Envelope(_next_id, call.method, call.params)
  /\ _id_counter' = _next_id
  /\ built' = Append(built, _next_id)
  /\ sent' = <<>>
  /\ inbox' = <<>>
  /\ answers' = <<>>
  /\ fault' = "none"
  /\ prev_fault' = fault
  /\ tried_open' = FALSE
  /\ data' = NoData
  /\ status' = 0
  /\ body_kind' = "none"
  /\ outcome' = NoOutcome
  /\ returned' = NoReturn
  /\ retries' = max_retries
  /\ pc' = IF UsesSocket
           THEN (IF _ws = NoWs THEN "ws_open" ELSE "ws_send")
           ELSE "http"
  /\ UNCHANGED <<config, fn_vars, wait_vars, _ws, conn_seq, open_conns>>

\* Variant of Handback in which call_tool decodes without returning.
HandbackDropsValue(exc) ==
  IF exc.kind # "result" THEN Propagated(exc)
  ELSE IF op.fn = "call_tool"
       THEN (IF _decode_tool_result(exc.value).kind = "value"
             THEN Original(NullVal)
             ELSE _decode_tool_result(exc.value))
  ELSE Original(exc.value)

\* call_tool, line 300, and the callers that hand on what _rpc returns or
\* raises.
Handback(exc) ==
  IF exc.kind # "result" THEN Propagated(exc)
  ELSE IF op.fn = "call_tool" THEN _decode_tool_result(exc.value)
  ELSE Original(exc.value)

\* The dispatch ends: _rpc returns or raises exc, without touching the
\* socket handle, and the method that made the dispatch hands back.
Raise(exc) ==
  /\ outcome' = exc
  /\ returned' = Handback(exc)
  /\ pc' = "idle"

\* Variant of WsOpen that caches the handle of a connection that failed to
\* open.
WsOpenCachesFailed ==
  /\ pc = "ws_open"
  /\ \/ /\ ~ws_connect
        /\ fault' = "open"
        /\ Raise(PocketMCPConnectionError)
        /\ UNCHANGED <<_ws, conn_seq, open_conns, tried_open>>
     \/ /\ ws_connect
        /\ tried_open' = TRUE
        /\ conn_seq' = conn_seq + 1
        /\ _ws' = conn_seq + 1
        /\ open_conns' = open_conns \cup {conn_seq + 1}
        /\ pc' = "ws_send"
        /\ UNCHANGED <<outcome, returned, fault>>
     \/ /\ ws_connect
        /\ tried_open' = TRUE
        /\ fault' = "open"
        /\ Raise(PocketMCPConnectionError)
        /\ conn_seq' = conn_seq + 1
        /\ _ws' = conn_seq + 1
        /\ UNCHANGED open_conns
  /\ UNCHANGED <<config, fn_vars, wait_vars, op, released, _id_counter, payload, retries,
                 sent, built, inbox, answers, prev_fault, data, status, body_kind>>

\* _rpc, lines 208-218: lazy open of the socket.
WsOpen ==
  /\ pc = "ws_open"
  /\ \/ /\ ~ws_connect
        /\ fault' = "open"
        /\ Raise(PocketMCPConnectionError)
        /\ UNCHANGED <<_ws, conn_seq, open_conns, tried_open>>
     \/ /\ ws_connect
        /\ tried_open' = TRUE
        /\ conn_seq' = conn_seq + 1
        /\ _ws' = conn_seq + 1
        /\ open_conns' = open_conns \cup {conn_seq + 1}
        /\ pc' = "ws_send"
        /\ UNCHANGED <<outcome, returned, fault>>
     \/ /\ ws_connect
        /\ tried_open' = TRUE
        /\ fault' = "open"
        /\ Raise(PocketMCPConnectionError)
        /\ UNCHANGED <<_ws, conn_seq, open_conns>>
  /\ UNCHANGED <<config, fn_vars, wait_vars, op, released, _id_counter, payload, retries,
                 sent, built, inbox, answers, prev_fault, data, status, body_kind>>

\* Variant of Teardown that closes the socket but keeps the handle.
TeardownKeepsHandle(failure) ==
  /\ fault' = failure
  /\ open_conns' = open_conns \ {_ws}
  /\ UNCHANGED _ws
  /\ Raise(PocketMCPConnectionError)

\* _rpc, lines 227-230: the except branch of the socket exchange.
Teardown(failure) ==
  /\ fault' = failure
  /\ open_conns' = open_conns \ {_ws}
  /\ _ws' = NoWs
  /\ Raise(PocketMCPConnectionError)

\* _rpc, line 221: self._ws.send(json.dumps(payload)).
WsSend ==
  /\ pc = "ws_send"
  /\ \/ /\ sent' = Append(sent, Transmission("ws"))
        /\ pc' = "ws_recv"
        /\ UNCHANGED <<_ws, open_conns, outcome, returned, fault>>
     \/ /\ Teardown("send")
        /\ UNCHANGED sent
  /\ UNCHANGED <<config, fn_vars, wait_vars, op, released, _id_counter, payload, retries,
                 built, inbox, answers, prev_fault, tried_open, data, status, body_kind, conn_seq>>

\* Variant of WsRecv whose loop stops at the first envelope, whatever its id.
WsRecvAnyId ==
  /\ pc = "ws_recv"
  /\ \/ /\ \E failure \in {"recv", "undecodable", "nonobject"} : Teardown(failure)
        /\ UNCHANGED <<inbox, data>>
     \/ \E m \in Envelopes :
          /\ inbox' = Append(inbox, m.id)
          /\ data' = m
          /\ Raise(Inspect(m))
          /\ UNCHANGED <<_ws, open_conns, fault>>
  /\ UNCHANGED <<config, fn_vars, wait_vars, op, released, _id_counter, payload, retries,
                 sent, built, answers, prev_fault, tried_open, status, body_kind, conn_seq>>

\* _rpc, lines 222-226: one iteration of the read loop.  A receive can fail
\* or time out, the text can fail json.loads, the decoded value can be a
\* non-object (data.get raises), or it is an envelope.
\* Variant of WsRecv that closes the connection when the response to the
\* request does not yield a result.
WsRecvClosesOnError ==
  /\ pc = "ws_recv"
  /\ \/ /\ \E failure \in {"recv", "undecodable", "nonobject"} : Teardown(failure)
        /\ UNCHANGED <<inbox, data>>
     \/ \E m \in Envelopes :
          /\ inbox' = Append(inbox, m.id)
          /\ IF PyEq(m.id, payload.id)
             THEN /\ data' = m
                  /\ Raise(Inspect(m))
                  /\ IF Inspect(m).kind = "result"
                     THEN UNCHANGED <<_ws, open_conns>>
                     ELSE _ws' = NoWs /\ open_conns' = open_conns \ {_ws}
                  /\ UNCHANGED fault
             ELSE /\ Len(inbox) < MaxDrain
                  /\ UNCHANGED <<_ws, open_conns, data, outcome, returned, pc, fault>>
  /\ UNCHANGED <<config, fn_vars, wait_vars, op, released, _id_counter, payload, retries,
                 sent, built, answers, prev_fault, tried_open, status, body_kind, conn_seq>>

WsRecv ==
  /\ pc = "ws_recv"
  /\ \/ /\ \E failure \in {"recv", "undecodable", "nonobject"} : Teardown(failure)
        /\ UNCHANGED <<inbox, data>>
     \/ \E m \in Envelopes :
          /\ inbox' = Append(inbox, m.id)
          /\ IF PyEq(m.id, payload.id)
             THEN /\ data' = m
                  /\ Raise(Inspect(m))
                  /\ UNCHANGED <<_ws, open_conns, fault>>
             ELSE /\ Len(inbox) < MaxDrain
                  /\ UNCHANGED <<_ws, open_conns, data, outcome, returned, pc, fault>>
  /\ UNCHANGED <<config, fn_vars, wait_vars, op, released, _id_counter, payload, retries,
                 sent, built, answers, prev_fault, tried_open, status, body_kind, conn_seq>>

\* One attempt of session.request (line 174) that ends in a connection error
\* or a read timeout; urllib3 retries it while the policy is not exhausted.
\* A connect failure transmits nothing, a read failure has sent the request.
HttpError ==
  /\ pc = "http"
  /\ \E err \in {"connect", "read"} :
       sent' = IF err = "read" THEN Append(sent, Transmission("http")) ELSE sent
  /\ answers' = Append(answers, NoAnswer)
  /\ IF is_exhausted(retries)
     THEN /\ Raise(PocketMCPConnectionError)
          /\ UNCHANGED retries
     ELSE /\ retries' = retries - 1
          /\ UNCHANGED <<outcome, returned, pc>>
  /\ UNCHANGED <<config, fn_vars, wait_vars, op, released, _id_counter, _ws, payload,
                 built, inbox, fault, prev_fault, tried_open, data, status, body_kind,
                 conn_seq, open_conns>>

\* One attempt of session.request (line 174) that is answered: urllib3
\* retries it or hands it back (raise_on_status=False, line 132), and
\* _request_json (lines 181-196) and _rpc (lines 234-240) treat the final one.
HttpResponse ==
  /\ pc = "http"
  /\ sent' = Append(sent, Transmission("http"))
  /\ \E st \in Statuses, has_retry_after \in BOOLEAN, body \in Bodies :
       /\ answers' = Append(answers, st)
       /\ IF is_retry(st, has_retry_after, retries) /\ ~is_exhausted(retries)
          THEN /\ retries' = retries - 1
               /\ UNCHANGED <<outcome, returned, pc, data, status, body_kind>>
          ELSE /\ status' = st
               /\ body_kind' = body.kind
               /\ data' = RequestJsonData(st, body)
               /\ Raise(RequestJsonOutcome(st, body))
               /\ UNCHANGED retries
  /\ UNCHANGED <<config, fn_vars, wait_vars, op, released, _id_counter, _ws, payload,
                 built, inbox, fault, prev_fault, tried_open, conn_seq, open_conns>>

\* A method that returns or raises ret without calling _rpc: the record of
\* the method's dispatch shows that none was made.
NoDispatch(ret) ==
  /\ returned' = ret
  /\ sent' = <<>>
  /\ inbox' = <<>>
  /\ answers' = <<>>
  /\ fault' = "none"
  /\ prev_fault' = "none"
  /\ tried_open' = FALSE
  /\ data' = NoData
  /\ status' = 0
  /\ body_kind' = "none"
  /\ outcome' = NoOutcome
  /\ UNCHANGED <<config, fn_vars, wait_vars, _id_counter, pc, payload, retries, built, conn_seq>>

\* The caller invokes close().
CloseOp == [fn |-> "close", name |-> NoneStr, method |-> "", params |-> None]

\* Variant of close that forgets the handle without closing the socket.
close_drops_handle ==
  /\ pc = "idle"
  /\ op' = CloseOp
  /\ IF _ws # NoWs
     THEN /\ open_conns' = open_conns
          /\ _ws' = NoWs
          /\ released' = <<>>
     ELSE /\ released' = <<>>
          /\ UNCHANGED <<_ws, open_conns>>
  /\ NoDispatch(NoReturn)

\* Variant of close without line 151: the socket is closed and the handle
\* is kept.
close_keeps_handle ==
  /\ pc = "idle"
  /\ op' = CloseOp
  /\ IF _ws # NoWs
     THEN /\ open_conns' = open_conns \ {_ws}
          /\ _ws' = _ws
          /\ released' = <<_ws>>
     ELSE /\ released' = <<>>
          /\ UNCHANGED <<_ws, open_conns>>
  /\ NoDispatch(NoReturn)

\* close, lines 147-151: a live socket is closed and the handle set to None.
close ==
  /\ pc = "idle"
  /\ op' = CloseOp
  /\ IF _ws # NoWs
     THEN /\ open_conns' = open_conns \ {_ws}
          /\ _ws' = NoWs
          /\ released' = <<_ws>>
     ELSE /\ released' = <<>>
          /\ UNCHANGED <<_ws, open_conns>>
  /\ NoDispatch(NoReturn)

\* A method raises exc before it calls _rpc: the client is left as it was.
RaiseBeforeRpc(exc) ==
  /\ NoDispatch(exc)
  /\ UNCHANGED <<_ws, open_conns>>

\* A method that dispatches and hands on what _rpc returns or raises.
_rpc(call) ==
  /\ RpcStart(call)
  /\ op' = [fn |-> "_rpc", name |-> NoneStr, method |-> call.method,
            params |-> call.params]
  /\ released' = <<>>

\* call_tool, lines 293-299: validation, then the dispatch of tools/call
\* with {"name": name, "arguments": arguments or {}}.
call_tool(name, arguments) ==
  /\ pc = "idle"
  /\ op' = [fn |-> "call_tool", name |-> name, method |-> "tools/call",
            params |-> "args"]
  /\ released' = <<>>
  /\ IF _require_non_empty(name) \/ arguments = "list"
     THEN RaiseBeforeRpc(PocketMCPValidationError)
     ELSE RpcStart([method |-> "tools/call", params |-> "args"])

Next ==
  \/ \E call \in Calls : _rpc(call)
  \/ \E name \in ToolNames, arguments \in Arguments : call_tool(name, arguments)
  \/ WsOpen
  \/ WsSend
  \/ WsRecv
  \/ HttpError
  \/ HttpResponse
  \/ close

Spec == Init /\ [][Next]_vars

\* ------------------------------------------------- the helpers on their own
\* The static helpers are applied to one input each, on a client that was
\* constructed and is otherwise left alone.
client_vars == <<config, _id_counter, _ws, pc, payload, retries, sent, built, inbox,
                 answers, fault, prev_fault, tried_open, data, status, outcome,
                 conn_seq, open_conns, body_kind, op, returned,
                 released>>

\* Host parts of a base address: "h", "wsh" and "h:8".
Hosts == {<<"h">>, <<"w", "s", "h">>, <<"h", ":", "8">>}

\* Arguments of _normalize_base_url: None, "", " ", "/", and for every host
\* the host alone and with "http://", "https://", "ws://" or "wss://" in
\* front, each with zero, one or two slashes behind, and with whitespace
\* around.
NormInputs ==
  {NoneStr, Str(<<>>), Str(<<" ">>), Str(<<"\t", "\n">>), Str(<<"/">>)}
  \cup {Str(pre \o scheme \o h \o slashes \o post) :
          pre \in {<<>>, <<" ">>}, scheme \in {<<>>, Http, Https, Ws, Wss}, h \in Hosts,
          slashes \in {<<>>, <<"/">>, <<"/", "/">>}, post \in {<<>>, <<"\n">>}}

\* Values of the isError and toolError members of a result object.
IsErrors == {ABSENT, None, "False", "True", "1"}
ToolErrors == {ABSENT, None, EmptyStr, "boom"}

\* Content lists of up to MaxContent parts.
ContentLists == UNION {[1..n -> Parts] : n \in 0..MaxContent}

\* Content members that are not lists, and the shortest lists.
SmallContents ==
  {NoContent, Content("num", <<>>), Content("null", <<>>), Content("str", <<>>),
   Content("obj", <<>>), ContentList(<<>>), ContentList(<<Part("text", TextStr(<<"p">>))>>),
   Content("list", <<Part(ABSENT, TextStr(<<"1">>)), Part("text", TextStr(<<"1">>))>>)}

\* Arguments of _decode_tool_result: null, 42, objects with every
\* combination of isError, toolError and a small content member, and
\* objects without isError with every content list.
ToolResults ==
  {NullVal, NumVal}
  \cup {Obj(e, te, c) : e \in IsErrors, te \in ToolErrors, c \in SmallContents}
  \cup {Obj(ABSENT, ABSENT, ContentList(items)) : items \in ContentLists}

\* A client constructed with the address "http://h/" and the defaults.
FnInit ==
  /\ Init
  /\ raw_url = Str(HttpUrl \o <<"/">>)
  /\ max_retries = DefaultMaxRetries

NormalizeBaseUrl(base) ==
  /\ fn = "none"
  /\ fn' = "_normalize_base_url"
  /\ fn_arg' = base
  /\ fn_ret' = _normalize_base_url(base)
  /\ UNCHANGED <<client_vars, wait_vars>>

DecodeToolResult(result) ==
  /\ fn = "none"
  /\ fn' = "_decode_tool_result"
  /\ fn_arg' = result
  /\ fn_ret' = _decode_tool_result(result)
  /\ UNCHANGED <<client_vars, wait_vars>>

RequireNonEmpty(value) ==
  /\ fn = "none"
  /\ fn' = "_require_non_empty"
  /\ fn_arg' = value
  /\ fn_ret' = IF _require_non_empty(value) THEN PocketMCPValidationError ELSE NoReturn
  /\ UNCHANGED <<client_vars, wait_vars>>

FnNext ==
  \/ \E base \in NormInputs : NormalizeBaseUrl(base)
  \/ \E result \in ToolResults : DecodeToolResult(result)
  \/ \E value \in ToolNames : RequireNonEmpty(value)

FnSpec == FnInit /\ [][FnNext]_vars

\* ------------------------------------------------- dispatches run to the end
\* _rpc, lines 222-226, without a limit on the messages the remote delivers:
\* every recv(timeout=self.timeout) that is handed a message in time goes
\* round the loop again unless the id matches.  inbox keeps the ids of the
\* last MaxDrain messages read.
WsRecvLive ==
  /\ pc = "ws_recv"
  /\ \/ /\ \E failure \in {"recv", "undecodable", "nonobject"} : Teardown(failure)
        /\ UNCHANGED <<inbox, data>>
     \/ \E m \in Envelopes :
          /\ inbox' = Append(IF Len(inbox) < MaxDrain THEN inbox ELSE Tail(inbox), m.id)
          /\ IF PyEq(m.id, payload.id)
             THEN /\ data' = m
                  /\ Raise(Inspect(m))
                  /\ UNCHANGED <<_ws, open_conns, fault>>
             ELSE UNCHANGED <<_ws, open_conns, data, outcome, returned, pc, fault>>
  /\ UNCHANGED <<config, fn_vars, wait_vars, op, released, _id_counter, payload, retries,
                 sent, built, answers, prev_fault, tried_open, status, body_kind, conn_seq>>

\* The next step of the dispatch in progress.
DispatchStep ==
  \/ WsOpen
  \/ WsSend
  \/ WsRecvLive
  \/ HttpError
  \/ HttpResponse

LiveNext ==
  \/ \E call \in Calls : _rpc(call)
  \/ DispatchStep

\* The caller's thread is blocked in _rpc and keeps running it: every
\* blocking call of a dispatch (ws_connect with open_timeout, send, recv
\* with timeout, session.request with timeout) comes back, so a dispatch
\* in progress always takes its next step.  Nothing makes the remote send
\* the matching message or stay silent.
LiveSpec == Init /\ [][LiveNext]_vars /\ WF_vars(DispatchStep)

\* ------------------------------------------------------ wait_until_healthy
\* Time is counted in tenths of a second, the least poll interval (line 308).
Second == 10

Max(a, b) == IF a >= b THEN a ELSE b

\* int(x) for x given in tenths: the whole seconds, rounded towards zero.
int(x) == IF x >= 0 THEN x \div Second ELSE 0 - ((0 - x) \div Second)

\* timeout_seconds: -1, 0.5, 1.5 and the whole seconds up to MaxTimeout.
TimeoutArgs == {0 - Second, 5, Second + 5} \cup {n * Second : n \in 1..MaxTimeout}
\* poll_interval_seconds: 0.0, 0.5 and 1.0.
PollArgs == {0, 5, Second}

\* The time a health() call takes, the time that passes between reading
\* the clock for the deadline and reading it for the loop (less than a
\* second), and the time time.sleep takes beyond what it was asked for.
ProbeTimes == {0, 3, Second + 2}
StartLags == {0, Second - 1}
SleepLags == {0, 1}

\* Bodies of the answers to GET /health: not JSON, JSON that is not an
\* object, an object, and an object with an error member.
HealthBodies ==
  {b \in Bodies :
     \/ b.kind # "object"
     \/ b.env.id = NoneId /\ b.env.result = AbsentVal /\ b.env.error \in {ErrAbsent, ErrNull}}

\* health, lines 302-304, on the final answer of the GET: _request_json,
\* lines 173-196.  A ws address has no adapter in the session, and an answer
\* of NoAnswer is a failed request: both raise a RequestException.
health(st, body) ==
  IF UsesSocket \/ st = NoAnswer \/ raise_for_status(st) THEN PocketMCPConnectionError
  ELSE IF body.kind # "object" THEN PocketMCPProtocolError
  ELSE Returned(body.env)

\* Variant of WaitStart without the floor of one second on the timeout.
WaitStartNoFloor(timeout_seconds, poll_interval_seconds) ==
  /\ pc = "idle"
  /\ wpc = "none"
  /\ wait_args' = [timeout_seconds |-> timeout_seconds,
                   poll_interval_seconds |-> poll_interval_seconds]
  /\ deadline' = now + int(timeout_seconds) * Second
  /\ poll_interval' = Max(1, poll_interval_seconds)
  /\ last_error' = "none"
  /\ \E lag \in StartLags : now' = now + lag
  /\ wpc' = "check"
  /\ UNCHANGED <<client_vars, fn_vars, probes, failed, pauses, probed, waited>>

\* wait_until_healthy, lines 307-309.
WaitStart(timeout_seconds, poll_interval_seconds) ==
  /\ pc = "idle"
  /\ wpc = "none"
  /\ wait_args' = [timeout_seconds |-> timeout_seconds,
                   poll_interval_seconds |-> poll_interval_seconds]
  /\ deadline' = now + Max(1, int(timeout_seconds)) * Second
  /\ poll_interval' = Max(1, poll_interval_seconds)
  /\ last_error' = "none"
  /\ \E lag \in StartLags : now' = now + lag
  /\ wpc' = "check"
  /\ UNCHANGED <<client_vars, fn_vars, probes, failed, pauses, probed, waited>>

\* wait_until_healthy, line 311 and lines 318-321: the loop condition, and
\* the error raised when it is false.
WaitCheck ==
  /\ wpc = "check"
  /\ IF now < deadline
     THEN /\ wpc' = "probe"
          /\ UNCHANGED waited
     ELSE /\ wpc' = "done"
          /\ waited' = PocketMCPConnectionError
  /\ UNCHANGED <<client_vars, fn_vars, now, wait_args, deadline, poll_interval,
                 last_error, probes, failed, pauses, probed>>

\* wait_until_healthy, lines 312-315: one health() call, returned from or
\* caught.
WaitProbe ==
  /\ wpc = "probe"
  /\ probes' = probes + 1
  /\ \E took \in ProbeTimes : now' = now + took
  /\ \E st \in Statuses \cup {NoAnswer}, body \in HealthBodies :
       /\ probed' = health(st, body)
       /\ IF health(st, body).kind = "result"
          THEN /\ waited' = health(st, body)
               /\ wpc' = "done"
               /\ UNCHANGED <<last_error, failed>>
          ELSE /\ last_error' = health(st, body).kind
               /\ failed' = failed + 1
               /\ wpc' = "sleep"
               /\ UNCHANGED waited
  /\ UNCHANGED <<client_vars, fn_vars, wait_args, deadline, poll_interval, pauses>>

\* wait_until_healthy, line 316: time.sleep(poll_interval).
WaitSleep ==
  /\ wpc = "sleep"
  /\ pauses' = pauses + 1
  /\ \E lag \in SleepLags : now' = now + poll_interval + lag
  /\ wpc' = "check"
  /\ UNCHANGED <<client_vars, fn_vars, wait_args, deadline, poll_interval,
                 last_error, probes, failed, probed, waited>>

\* The clients wait_until_healthy is called on: a new one, one that has made
\* dispatches and was then closed, and one that has made dispatches over a
\* socket it still holds and has then refused a call_tool("").
HealthInit ==
  /\ raw_url \in RawUrls
  /\ base_url = ConstructBaseUrl(raw_url).url
  /\ max_retries = DefaultMaxRetries
  /\ ws_connect = TRUE
  /\ _id_counter \in 0..MaxCalls
  /\ built = [i \in 1.._id_counter |-> i]
  /\ payload = IF _id_counter = 0 THEN NoPayload
               ELSE Envelope(_id_counter, "tools/list", None)
  /\ _ws \in IF UsesSocket /\ _id_counter > 0 THEN {NoWs, 1} ELSE {NoWs}
  /\ conn_seq = IF UsesSocket /\ _id_counter > 0 THEN 1 ELSE 0
  /\ open_conns = {_ws} \ {NoWs}
  /\ op = IF _id_counter = 0 THEN NoOp
          ELSE IF _ws = NoWs THEN CloseOp
          ELSE [fn |-> "call_tool", name |-> Str(<<>>), method |-> "tools/call",
                params |-> "args"]
  /\ returned = IF op.fn = "call_tool" THEN PocketMCPValidationError ELSE NoReturn
  /\ released = IF op.fn = "close" /\ UsesSocket THEN <<1>> ELSE <<>>
  /\ retries = IF _id_counter = 0 THEN 0 ELSE max_retries
  /\ pc = "idle"
  /\ sent = <<>>
  /\ inbox = <<>>
  /\ answers = <<>>
  /\ fault = "none"
  /\ prev_fault = "none"
  /\ tried_open = FALSE
  /\ data = NoData
  /\ status = 0
  /\ outcome = NoOutcome
  /\ body_kind = "none"
  /\ fn = "none"
  /\ fn_arg = NoneStr
  /\ fn_ret = NoReturn
  /\ NoWait

HealthNext ==
  \/ \E timeout_seconds \in TimeoutArgs, poll_interval_seconds \in PollArgs :
       WaitStart(timeout_seconds, poll_interval_seconds)
  \/ WaitCheck
  \/ WaitProbe
  \/ WaitSleep

HealthSpec == HealthInit /\ [][HealthNext]_vars

\* ================================================================ claims
SocketFaults == {"send", "recv", "undecodable", "nonobject"}
ErrorStatuses == 400..599

\* C1: every request envelope built by a client carries an id strictly
\* greater than the id of every envelope built before it, whatever the
\* outcomes of the dispatches and with close() interleaved; the counter is
\* never behind an id it has handed out.
C1_IdsStrictlyIncreasing ==
  /\ \A i, j \in 1..Len(built) : i < j => built[i] < built[j]
  /\ \A i \in 1..Len(built) : built[i] <= _id_counter

\* A second envelope was built after a dispatch that failed on the socket.
C1_Witness ==
  /\ Len(built) >= 2
  /\ prev_fault \in SocketFaults
  /\ built[Len(built)] > built[1]

\* C2 (as claimed): a dispatch that returns a result or raises an RPC-class
\* error consumed a response envelope whose id is the id of its request, on
\* the HTTP transport as on the socket transport.
C2_ConsumedIdMatches ==
  (pc = "idle" /\ outcome.kind \in {"result", "rpc_error"})
    => data.id = IntId(payload.id)

C4_SocketFailureTearsDown ==
  /\ fault \in SocketFaults =>
       /\ pc = "idle"
       /\ outcome = PocketMCPConnectionError
       /\ _ws = NoWs
       /\ open_conns = {}
  /\ (prev_fault \in SocketFaults /\ pc # "ws_open") => tried_open
  /\ (prev_fault \in SocketFaults /\ pc \in {"ws_send", "ws_recv"}) =>
       /\ _ws = conn_seq
       /\ _ws \in open_conns
  /\ prev_fault \in SocketFaults =>
       \A i \in 1..Len(sent) : sent[i].conn = conn_seq /\ sent[i].conn # NoWs

\* The dispatch after a failed one has sent its request on a new connection.
C4_Witness ==
  /\ prev_fault \in SocketFaults
  /\ pc = "ws_recv"
  /\ Len(sent) = 1
  /\ sent[1].conn = 2

\* C5 (as claimed): an HTTP dispatch whose attempts are all answered with a
\* status of the retry set makes at most max_retries + 1 transmissions and
\* raises a connection-class error; one answered with a failing status
\* outside the retry set is transmitted exactly once and raises a
\* connection-class error.
C5_RetryOnlyForcelist ==
  (pc = "idle" /\ ~UsesSocket /\ answers # <<>>) =>
    /\ (\A i \in 1..Len(answers) : answers[i] \in status_forcelist) =>
         /\ Len(sent) <= max_retries + 1
         /\ outcome = PocketMCPConnectionError
    /\ (answers[1] \in ErrorStatuses \ status_forcelist) =>
         /\ Len(sent) = 1
         /\ Len(answers) = 1
         /\ outcome = PocketMCPConnectionError

\* C6: every transmission of a dispatch, retransmissions included, carries
\* the envelope built at the start of the dispatch, and each dispatch moves
\* the id counter by exactly one: the k-th dispatch has id k.
C6_RetriesKeepId ==
  /\ \A i \in 1..Len(sent) : sent[i].env = payload
  /\ Len(built) = _id_counter
  /\ \A i \in 1..Len(built) : built[i] = i
  /\ built # <<>> => payload.id = built[Len(built)]

\* A dispatch that used its whole retry budget.
C6_Witness ==
  /\ pc = "idle"
  /\ max_retries >= 1
  /\ Len(sent) = max_retries + 1
  /\ sent[Len(sent)].env.id = _id_counter

\* C7 (as claimed): a dispatch that ends in an RPC-class error, a
\* protocol-class error or a socket-path failure has transmitted its request
\* at most once.
C7_ErrorsTransmitOnce ==
  (pc = "idle" /\ (\/ outcome.kind \in {"rpc_error", "protocol_error"}
                   \/ (UsesSocket /\ outcome.kind = "connection_error")))
    => Len(sent) <= 1

\* C7 (amended): a socket dispatch transmits at most once; an HTTP dispatch
\* that ends in an RPC-class or protocol-class error ends at the response
\* that produced it, and every attempt before that response failed at the
\* transport level (no response, or a 4xx/5xx status).
C7_NoRetryAfterApplicationError ==
  /\ UsesSocket => Len(sent) <= 1
  /\ (pc = "idle" /\ ~UsesSocket /\ outcome.kind \in {"rpc_error", "protocol_error"}) =>
       /\ answers # <<>>
       /\ answers[Len(answers)] = status
       /\ status \notin ErrorStatuses \cup {0}
       /\ \A i \in 1..(Len(answers) - 1) :
            answers[i] = NoAnswer \/ answers[i] \in ErrorStatuses

\* An HTTP dispatch ended in an RPC-class error after a retried attempt.
C7_Witness ==
  /\ pc = "idle" /\ ~UsesSocket
  /\ outcome.kind = "rpc_error"
  /\ Len(sent) = 2
  /\ answers[1] = 503

\* C8: for the envelope a dispatch consumed, an error member wins over a
\* result member: an object raises an RPC-class error, anything else (null
\* included) a protocol-class error, and the result member (None when
\* absent) is returned exactly when there is no error member.
C8_ErrorMemberWins ==
  (pc = "idle" /\ data # NoData) =>
    /\ data.error.kind = "object" => outcome.kind = "rpc_error"
    /\ data.error.kind \in {"null", "string"} => outcome.kind = "protocol_error"
    /\ outcome.kind = "result" <=> data.error.kind = "absent"
    /\ outcome.kind = "result" =>
         outcome.value = (IF data.result = AbsentVal THEN NullVal ELSE data.result)

\* An envelope with both an error object and a result was consumed.
C8_Witness ==
  /\ pc = "idle"
  /\ data.error.kind = "object"
  /\ data.result = NumVal
  /\ outcome.kind = "rpc_error"

\* C9 (as claimed): the RPC-class error carries code, message and data of
\* the error member verbatim, an absent field being carried as absent (None).
C9_RpcErrorVerbatim ==
  outcome.kind = "rpc_error" =>
    /\ outcome.code = (IF data.error.code = ABSENT THEN None ELSE data.error.code)
    /\ outcome.message = (IF data.error.message = ABSENT THEN None ELSE data.error.message)
    /\ outcome.data = (IF data.error.data = ABSENT THEN None ELSE data.error.data)

\* C9 (amended): code and data are carried verbatim (None when absent); the
\* message is carried verbatim when it is present and not empty, and is the
\* fixed text "Unknown MCP error" when it is absent, null or empty.
C9_RpcErrorFields ==
  outcome.kind = "rpc_error" =>
    /\ outcome.code = (IF data.error.code = ABSENT THEN None ELSE data.error.code)
    /\ outcome.data = (IF data.error.data = ABSENT THEN None ELSE data.error.data)
    /\ outcome.message = (IF data.error.message \in {ABSENT, None, EmptyStr}
                          THEN "Unknown MCP error"
                          ELSE data.error.message)

\* An RPC-class error was raised for an error object with all three fields.
C9_Witness ==
  /\ outcome.kind = "rpc_error"
  /\ data.error.code = "-32601"
  /\ data.error.message = "boom"
  /\ data.error.data = "d"
  /\ outcome.data = "d"

\* C10 (as claimed): an HTTP dispatch whose final response has a status
\* outside 200-299 raises a connection-class error, and a result, an
\* RPC-class or a protocol-class outcome comes from a 2xx response only.
C10_Non2xxIsConnectionError ==
  (pc = "idle" /\ ~UsesSocket /\ status # 0) =>
    /\ status \notin 200..299 => outcome.kind = "connection_error"
    /\ outcome.kind \in {"result", "rpc_error", "protocol_error"} => status \in 200..299

\* C11: on the HTTP transport, when the final response has a 2xx status and
\* a body that is not JSON or not a JSON object, the dispatch has ended in
\* a protocol error that reaches the caller, no envelope was consumed, and
\* that response is the last thing the dispatch exchanged: nothing was
\* sent after it.
C11_BadBodyIsProtocolError ==
  (status \in 200..299 /\ body_kind \in {"nonjson", "nonobject"}) =>
    /\ pc = "idle"
    /\ outcome = PocketMCPProtocolError
    /\ returned.kind = "protocol_error"
    /\ data = NoData
    /\ answers[Len(answers)] = status
    /\ Len(sent) <= Len(answers)
    /\ sent[Len(sent)].via = "http"

\* A 200 response with a body that is JSON but not an object, on a client
\* that still had retries left.
C11_Witness ==
  /\ status = 200
  /\ body_kind = "nonobject"
  /\ outcome = PocketMCPProtocolError
  /\ max_retries >= 1
  /\ Len(sent) = 1
  /\ retries = max_retries

\* C12: decoding an object whose isError is truthy raises a tool error,
\* whatever its content member is; the message is its toolError, or
\* "Unknown tool error" when toolError is missing, null or empty.
C12_ErrorFlagWins ==
  (/\ fn = "_decode_tool_result"
   /\ fn_arg.t = "obj"
   /\ fn_arg.isError \in {"True", "1"}) =>
    /\ fn_ret.kind = "tool_error"
    /\ fn_ret.message = IF fn_arg.toolError \in {ABSENT, None, EmptyStr}
                        THEN "Unknown tool error"
                        ELSE fn_arg.toolError

\* {"isError": true, "toolError": "boom", "content": 5}: the content alone
\* would not decode.
C12_Witness ==
  /\ fn = "_decode_tool_result"
  /\ fn_arg = Obj("True", "boom", Content("num", <<>>))
  /\ fn_ret = PocketMCPToolError("boom")

\* The text a part contributes under the decoding rule: a part counts when
\* it is an object of type "text" whose text is a non-empty string.
C13_Counts(item) ==
  item.k = "obj" /\ item.type = "text" /\ item.text.k = "str" /\ item.text.s # <<>>

\* The texts that count, in order, joined with newlines.
C13_Joined(content) ==
  IF content.k # "list" THEN <<>>
  ELSE LET counted == SelectSeq(content.items, C13_Counts) IN
       Join([i \in 1..Len(counted) |-> counted[i].text.s])

\* What the decoding rule yields for an object with a content member.
C13_Expected(result) ==
  LET text == C13_Joined(result.content) IN
  IF text = <<>> THEN Original(result)
  ELSE IF JsonLoads(text).ok THEN Parsed(JsonLoads(text).v)
  ELSE Text(text)

\* C13: decoding an object that has a content member and no truthy isError
\* returns what the rule yields: the original object when the joined text
\* is empty, the parsed value when the joined text is JSON, the joined
\* text otherwise.
C13_ContentDecoded ==
  (/\ fn = "_decode_tool_result"
   /\ fn_arg.t = "obj"
   /\ fn_arg.isError \in {ABSENT, None, "False"}
   /\ fn_arg.content.k # "absent") =>
    fn_ret = C13_Expected(fn_arg)

\* A content member the decoder can walk: a list whose text parts have a
\* string, null or missing text.
C13_WellFormed(content) ==
  /\ content.k = "list"
  /\ \A i \in 1..Len(content.items) :
       (content.items[i].k = "obj" /\ content.items[i].type = "text") =>
         content.items[i].text.k # "num"

\* C13, on the contents the decoder can walk: there the rule is followed.
C13_WellFormedContentDecoded ==
  (/\ fn = "_decode_tool_result"
   /\ fn_arg.t = "obj"
   /\ fn_arg.isError \in {ABSENT, None, "False"}
   /\ C13_WellFormed(fn_arg.content)) =>
    fn_ret = C13_Expected(fn_arg)

\* Three text parts "[", "1", "]" among other parts decode to the list [1].
C13_ParsedReached ==
  /\ fn = "_decode_tool_result"
  /\ fn_arg = TextObj
  /\ fn_ret = Parsed(<<"[", "1", "]">>)

\* C14: a tool call that consumed a response without an error member whose
\* result r is not an object, or is an object with neither a truthy
\* isError nor a content member, hands back r itself, and decoding what it
\* handed back gives the same again.
C14_PassthroughRoundTrip ==
  (/\ op.fn = "call_tool"
   /\ pc = "idle"
   /\ data # NoData
   /\ data.error = ErrAbsent
   /\ data.result.t # "absent"
   /\ \/ data.result.t # "obj"
      \/ /\ data.result.isError \in {ABSENT, None, "False"}
         /\ data.result.content.k = "absent") =>
    /\ returned = Original(data.result)
    /\ _decode_tool_result(returned.v) = returned

\* A tool call on the socket transport that handed back the plain object
\* of the matching message, after discarding another message.
C14_Witness ==
  /\ op.fn = "call_tool"
  /\ pc = "idle"
  /\ UsesSocket
  /\ Len(inbox) >= 2
  /\ data.result = PlainObj
  /\ data.error = ErrAbsent
  /\ returned = Original(PlainObj)

\* A name that is None, empty or made of whitespace only.
C15_Blank(name) == name.none \/ \A i \in 1..Len(name.s) : name.s[i] \in Whitespace

\* What is on record about the method call in progress or last made.
C15_Record ==
  <<op, returned, sent, inbox, answers, fault, prev_fault, tried_open, data, status,
    body_kind, outcome>>

\* C15: a call of call_tool with a blank name, made on an idle client,
\* raises a validation error and does nothing else: no envelope is built,
\* nothing is transmitted, no connection is opened or closed, and the id
\* counter and the socket handle keep their values.
C15_ValidationBeforeNetwork ==
  [][(/\ pc = "idle"
      /\ op'.fn = "call_tool"
      /\ C15_Blank(op'.name)
      /\ C15_Record' # C15_Record) =>
       /\ returned' = PocketMCPValidationError
       /\ pc' = "idle"
       /\ _id_counter' = _id_counter
       /\ built' = built
       /\ payload' = payload
       /\ sent' = <<>>
       /\ _ws' = _ws
       /\ conn_seq' = conn_seq
       /\ open_conns' = open_conns]_vars

\* A whitespace-only name was refused on a client that holds a live socket
\* and has made one dispatch.
C15_Witness ==
  /\ op.fn = "call_tool"
  /\ op.name = Str(<<"\n", " ">>)
  /\ returned = PocketMCPValidationError
  /\ pc = "idle"
  /\ _id_counter = 1
  /\ built = <<1>>
  /\ _ws # NoWs
  /\ _ws \in open_conns

\* The address given to the constructor begins, after surrounding
\* whitespace, with ws:// or wss://.
C16_SocketAddress ==
  StartsWith(Strip(raw_url.s), Ws) \/ StartsWith(Strip(raw_url.s), Wss)

\* C16: a dispatch runs on the socket transport exactly when the
\* configured address begins with ws:// or wss://; a client with any other
\* address never opens or uses a socket, and a client with a socket
\* address never makes an HTTP request.
C16_TransportByScheme ==
  /\ pc \in {"ws_open", "ws_send", "ws_recv"} => C16_SocketAddress
  /\ pc = "http" => ~C16_SocketAddress
  /\ ~C16_SocketAddress =>
       /\ _ws = NoWs /\ conn_seq = 0 /\ open_conns = {} /\ inbox = <<>>
       /\ \A i \in 1..Len(sent) : sent[i].via = "http"
  /\ C16_SocketAddress =>
       /\ answers = <<>>
       /\ \A i \in 1..Len(sent) : sent[i].via = "ws"

\* The address "wsh", which has no scheme, was served over HTTP.
C16_Witness ==
  /\ raw_url = Str(<<"w", "s", "h">>)
  /\ pc = "idle"
  /\ Len(sent) = 1
  /\ sent[1].via = "http"
  /\ outcome.kind = "result"

\* C16, for the normalization alone: a normalized address begins with
\* "ws" exactly when the address given begins, after surrounding
\* whitespace, with ws:// or wss://.
C16_SchemeSurvivesNormalization ==
  (fn = "_normalize_base_url" /\ ~fn_ret.err) =>
    (StartsWith(fn_ret.url, <<"w", "s">>) <=>
       (StartsWith(Strip(fn_arg.s), Ws) \/ StartsWith(Strip(fn_arg.s), Wss)))

\* "/mcp"
C17_McpPath == <<"/", "m", "c", "p">>

\* C17: _normalize_base_url raises a validation error for None, "" and
\* whitespace; any other result has no trailing slash; and for a host h
\* the arguments h, h/, http://h and http://h/ all give http://h, whose
\* RPC endpoint is http://h/mcp.
C17_NormalizationInsensitive ==
  fn = "_normalize_base_url" =>
    /\ (fn_arg.none \/ \A i \in 1..Len(fn_arg.s) : fn_arg.s[i] \in Whitespace) =>
         fn_ret = ValidationFailure
    /\ ~fn_ret.err => (fn_ret.url # <<>> /\ fn_ret.url[Len(fn_ret.url)] # "/")
    /\ \A h \in Hosts :
         (~fn_arg.none /\ fn_arg.s \in {h, h \o <<"/">>, Http \o h, Http \o h \o <<"/">>}) =>
           /\ fn_ret = [err |-> FALSE, url |-> Http \o h]
           /\ RpcEndpoint(fn_ret.url) = Http \o h \o C17_McpPath

\* "h:8/" was normalized to "http://h:8".
C17_Witness ==
  /\ fn = "_normalize_base_url"
  /\ fn_arg = Str(<<"h", ":", "8", "/">>)
  /\ fn_ret.url = <<"h", "t", "t", "p", ":", "/", "/", "h", ":", "8">>
  /\ RpcEndpoint(fn_ret.url) =
       <<"h", "t", "t", "p", ":", "/", "/", "h", ":", "8", "/", "m", "c", "p">>

\* C18: the connections the client has open are the one its handle names,
\* or none when the handle is absent, and the handle always names the
\* connection opened last; a connection is opened only by a dispatch at
\* its open step, with the handle absent and nothing open.
C18_AtMostOneConnection ==
  /\ [](/\ open_conns = (IF _ws = NoWs THEN {} ELSE {_ws})
        /\ _ws \in {NoWs, conn_seq}
        /\ Cardinality(open_conns) <= 1)
  /\ [][(conn_seq' # conn_seq \/ open_conns' \ open_conns # {}) =>
          /\ pc = "ws_open"
          /\ _ws = NoWs
          /\ open_conns = {}
          /\ conn_seq' = conn_seq + 1
          /\ open_conns' = {conn_seq'}
          /\ _ws' = conn_seq']_vars

\* A second connection is open, the first one having been closed, and a
\* dispatch is using it.
C18_Witness ==
  /\ conn_seq = 2
  /\ _ws = 2
  /\ open_conns = {2}
  /\ pc = "ws_recv"

\* C19: before the first dispatch no connection exists; the first
\* dispatch on a socket address opens connection 1 or fails at the open;
\* a dispatch whose open failed has ended in a connection error, has
\* transmitted nothing and has left the handle absent; and the dispatch
\* after it starts at the open step again.
C19_LazyOpen ==
  /\ built = <<>> => (_ws = NoWs /\ conn_seq = 0 /\ open_conns = {})
  /\ (UsesSocket /\ Len(built) = 1 /\ pc # "ws_open" /\ op.fn \in {"_rpc", "call_tool"}
       /\ returned.kind # "validation_error") =>
       (conn_seq >= 1 \/ fault = "open")
  /\ fault = "open" =>
       /\ pc = "idle"
       /\ outcome = PocketMCPConnectionError
       /\ returned.kind = "connection_error"
       /\ sent = <<>>
       /\ _ws = NoWs
       /\ open_conns = {}
  /\ (prev_fault = "open" /\ pc # "ws_open") => (tried_open \/ fault = "open")

\* The open failed in one dispatch and succeeded in the next, which
\* returned a result over the new connection.
C19_Witness ==
  /\ prev_fault = "open"
  /\ tried_open
  /\ pc = "idle"
  /\ outcome.kind = "result"
  /\ _ws = conn_seq
  /\ conn_seq = 1
  /\ Len(built) = 2

\* C20 (as claimed): every dispatch in progress eventually returns or
\* raises, also when the remote keeps delivering messages whose id is not
\* the id of the request.
C20_DispatchCompletes == (pc # "idle") ~> (pc = "idle")

\* C20, on the HTTP transport: the retry budget ends every dispatch.
C20_HttpDispatchCompletes == (pc = "http") ~> (pc = "idle")

\* C20, on the socket transport up to the read loop: the open and the send
\* end the dispatch or reach the loop.
C20_SocketReachesLoop == (pc \in {"ws_open", "ws_send"}) ~> (pc \in {"ws_recv", "idle"})

\* C21: the envelope of every dispatch carries jsonrpc "2.0", the id taken
\* for it and the method; it has a params member exactly when the caller's
\* params is not None, its value is what the caller gave (the empty object
\* included) and never null; and that envelope is what is transmitted.
C21_EnvelopeParams ==
  (op.fn \in {"_rpc", "call_tool"} /\ returned # PocketMCPValidationError) =>
    /\ payload.jsonrpc = "2.0"
    /\ payload.id = built[Len(built)]
    /\ payload.method = op.method
    /\ (payload.params = ABSENT) <=> (op.params = None)
    /\ op.params # None => payload.params = op.params
    /\ payload.params # None
    /\ \A i \in 1..Len(sent) : sent[i].env = payload

\* A dispatch whose caller gave the empty object has transmitted an
\* envelope with the empty object as its params member.
C21_Witness ==
  /\ op.fn = "_rpc"
  /\ op.params = "{}"
  /\ Len(sent) = 1
  /\ sent[1].env.params = "{}"
  /\ sent[1].env.jsonrpc = "2.0"

\* C22: when close() has returned the handle is absent and no socket
\* connection is open, and a live connection was closed once; a close()
\* that follows a close() closes no socket; a dispatch on a socket address
\* that follows a close() begins by opening a connection, and the
\* connection a dispatch opens is a new one, never one that was closed.
C22_CloseReleases ==
  /\ [](op.fn = "close" =>
          /\ pc = "idle"
          /\ _ws = NoWs
          /\ open_conns = {}
          /\ Len(released) <= 1
          /\ returned = NoReturn)
  /\ [](pc \in {"ws_send", "ws_recv"} => (_ws # NoWs /\ _ws \in open_conns))
  /\ [][(op.fn = "close" /\ op'.fn = "close") =>
          (released' = <<>> /\ open_conns' = open_conns /\ _ws' = _ws)]_vars
  /\ [][(op.fn = "close" /\ pc' # "idle") =>
          IF UsesSocket THEN pc' = "ws_open" ELSE pc' = "http"]_vars
  /\ [][(pc = "ws_open" /\ _ws' # NoWs) =>
          (_ws' = conn_seq + 1 /\ conn_seq' = conn_seq + 1 /\ _ws' \notin open_conns
           /\ open_conns' = {_ws'})]_vars

\* close() has closed the connection that a dispatch had opened.
C22_Witness ==
  /\ op.fn = "close"
  /\ released = <<1>>
  /\ _ws = NoWs
  /\ open_conns = {}
  /\ conn_seq = 1
  /\ Len(built) = 1

\* A dispatch on the socket transport has ended, after its exchange, in an
\* RPC error, in a protocol error, or in a tool error raised by call_tool's
\* decoding.
C23_ApplicationFailure ==
  /\ UsesSocket
  /\ pc = "idle"
  /\ op.fn \in {"_rpc", "call_tool"}
  /\ \/ outcome.kind \in {"rpc_error", "protocol_error"}
     \/ outcome.kind = "result" /\ returned.kind = "tool_error"

\* C23: after such a failure the connection the exchange went over is still
\* open and is still the handle; the dispatch that follows begins at the
\* send, on that connection, and opens none; and a dispatch loses its live
\* handle only in a step that ends it in a connection error after a failed
\* send, a failed read or a message that could not be decoded.
C23_ApplicationFailureKeepsSocket ==
  /\ [](C23_ApplicationFailure =>
          /\ _ws # NoWs
          /\ open_conns = {_ws}
          /\ fault = "none"
          /\ Len(sent) = 1
          /\ sent[1].conn = _ws)
  /\ [][(C23_ApplicationFailure /\ pc' # "idle") =>
          /\ pc' = "ws_send"
          /\ _ws' = _ws
          /\ conn_seq' = conn_seq
          /\ open_conns' = open_conns
          /\ ~tried_open']_vars
  /\ [][(pc # "idle" /\ _ws # NoWs /\ _ws' # _ws) =>
          /\ _ws' = NoWs
          /\ fault' \in SocketFaults
          /\ outcome' = PocketMCPConnectionError
          /\ returned'.kind = "connection_error"]_vars

\* The second dispatch went over the connection the first had opened,
\* without opening another, and call_tool raised a tool error from its
\* result: the connection is still the handle.
C23_Witness ==
  /\ C23_ApplicationFailure
  /\ returned.kind = "tool_error"
  /\ Len(built) = 2
  /\ ~tried_open
  /\ conn_seq = 1
  /\ _ws = 1
  /\ sent[1].conn = 1

\* C24 (as claimed): for every result value, objects whose content is not
\* a list and text parts whose text is not a string included,
\* _decode_tool_result returns a value or raises a tool error, and raises
\* nothing else.
C24_DecoderTotal ==
  fn = "_decode_tool_result" => fn_ret.kind \in {"value", "tool_error"}

\* C24, where the decoder ends normally: a result that is not an object, an
\* object without content or with a truthy isError, and an object whose
\* content is a string, an object, or a list whose text parts have a
\* string, null or missing text.
C24_DecoderTotalOnWalkable ==
  (/\ fn = "_decode_tool_result"
   /\ \/ fn_arg.t # "obj"
      \/ Get(fn_arg, "isError") \notin Falsy
      \/ fn_arg.content.k \in {"absent", "str", "obj"}
      \/ C13_WellFormed(fn_arg.content)) =>
    fn_ret.kind \in {"value", "tool_error"}

\* C25: wait_until_healthy has made a probe before it ends, and makes one
\* only when the clock read before it is short of the deadline, which lies
\* max(1, int(timeout_seconds)) seconds after the call; it returns what the
\* first probe that succeeds returned, all probes before that one having
\* failed; every probe that fails, with a connection error or a protocol
\* error, is followed by a pause of at least the poll interval, and the
\* pause by another probe when the deadline has not passed at its end;
\* when the deadline has passed and no probe has succeeded it ends with a
\* connection error; no step of it changes the request-id counter, the
\* socket handle or the open connections.
C25_WaitUntilHealthy ==
  /\ [](/\ wpc = "done" => probes >= 1
        /\ wpc = "probe" => now < deadline
        /\ wpc # "none" =>
             deadline - now <= Max(1, int(wait_args.timeout_seconds)) * Second
             \/ probes > 0
        /\ last_error \in {"none", "connection_error", "protocol_error"}
        /\ (last_error = "none") <=> (failed = 0)
        /\ pauses = IF wpc = "sleep" THEN failed - 1 ELSE failed
        /\ (wpc = "done" /\ waited.kind = "result") =>
             (waited = probed /\ failed = probes - 1)
        /\ (wpc = "done" /\ waited.kind # "result") =>
             /\ waited = PocketMCPConnectionError
             /\ failed = probes
             /\ now >= deadline
        /\ wpc # "done" => (waited = NoOutcome /\ failed = probes))
  /\ [][/\ _id_counter' = _id_counter
        /\ _ws' = _ws
        /\ open_conns' = open_conns
        /\ (wpc = "probe" /\ probed'.kind # "result") => wpc' = "sleep"
        /\ wpc = "sleep" => (wpc' = "check" /\ now' >= now + poll_interval
                              /\ poll_interval >= 1)
        /\ wpc = "check" => (IF now < deadline THEN wpc' = "probe"
                              ELSE wpc' = "done")]_vars

\* On a client that has made a dispatch and holds a socket,
\* wait_until_healthy has returned what its third probe returned, after a
\* probe that ended in a connection error and one that ended in a protocol
\* error.  (A socket address yields connection errors only, so the client
\* is one with an HTTP address.)
C25_Witness ==
  /\ wpc = "done"
  /\ waited.kind = "result"
  /\ probes = 3
  /\ pauses = 2
  /\ last_error = "protocol_error"
  /\ _id_counter >= 1

\* wait_until_healthy gave up: the deadline passed during the pause after a
\* probe that had failed before the deadline.
C25_GaveUp ==
  /\ wpc = "done"
  /\ waited = PocketMCPConnectionError
  /\ probes = 1
  /\ now - poll_interval - 1 < deadline
  /\ _ws # NoWs

====
